---- MODULE Spec2Model ----
(***************************************************************************)
(* Model of the Love-wave inversion driver of AkiEstimate:                 *)
(* InitialPhase/optimizer/optimizelove.cpp, main() from its option loop    *)
(* on, and invert().  The command line always names the four files; argv   *)
(* holds the options that are still to be read.                            *)
(*                                                                         *)
(* The model vector has one free parameter that lives on an integer grid   *)
(* 0..MaxVal, the last cell lying outside the prior bounds.  A step size    *)
(* is a binary floating point number: it is kept in units of the smallest  *)
(* positive value, the user's epsilon is a power of two, halving is exact  *)
(* until the value underflows to zero.                                     *)
(***************************************************************************)
EXTENDS Integers, Sequences, FiniteSets, TLC

\* ------------------------------------------------------------------ bounds
MaxVal == 3
MaxLike == 1
MaxEpsExp == 1
MaxIterations == 2
MaxArgs == 1

\* --------------------------------------------------------------- constants
\* optimizelove.cpp:435-436, one parameter type, in grid cells
PRIOR_MIN == 0
PRIOR_MAX == MaxVal - 1
\* optimizelove.cpp:559, in units of the smallest positive step size
EPSILON_MIN == 2

Vals == 0..MaxVal
Likes == 0..MaxLike
Grads == {-1, 0, 1}
UserEpsilons == {2^k : k \in 0..MaxEpsExp}
\* value of the std::string members of the fixed (masked out) model slots
FixedSlots == "fixed"

VARIABLES
  pc,               \* position in main()/invert()
  argv,             \* the options getopt_long has not returned yet
  maxiterations,    \* -N
  uepsilon,         \* -e, the _epsilon argument of invert
  mode,             \* -M
  model,            \* reference.model, the live model (mutated in place)
  reference,        \* reference.reference
  model_0,          \* prior mean vector
  model_v,          \* snapshot of the live model before the step
  model_v_proposed, \* candidate vector of the current step
  epsilon,          \* epsilon[0..1], here <<epsilon[0], epsilon[1]>>
  m,                \* strategy index of the current outer iteration
  valid,            \* result of the last validate
  stepok,           \* return value of the last ComputeStep
  iterations,
  like,
  last_like,
  dLdp,             \* derivative outputs of the last likelihood_love call
  known,            \* likelihood_love: the values it has returned so far
  stdout,           \* lines printed by printf
  stderr,           \* lines printed by fprintf(stderr, ...)
  invertRet,        \* return value of invert ("none" before it returns)
  mainRet           \* return value of main ("none" before it returns)

vars == <<pc, argv, maxiterations, uepsilon, mode, model, reference, model_0,
          model_v, model_v_proposed, epsilon, m, valid, stepok, iterations,
          like, last_like, dLdp, known, stdout, stderr, invertRet, mainRet>>

\* variables of main and the inputs, untouched by the loop of invert
mainVars == <<argv, maxiterations, uepsilon, mode, reference, invertRet,
              mainRet>>

\* ------------------------------------------------------------- pure parts

\* short_options / long_options: the option letters the program declares
DeclaredOptions ==
  {"i", "C", "f", "F", "r", "R", "V", "X", "S", "o", "s", "p", "b", "t", "P",
   "N", "e", "Q", "M", "h"}

\* the case labels of the switch in main, 'h' apart
SwitchCases ==
  {"i", "C", "r", "o", "R", "V", "X", "S", "s", "p", "b", "t", "P", "N", "e",
   "Q", "M"}

\* the test a case makes on atof(optarg) / atoi(optarg)
RangeOK(c, a) ==
  CASE c \in {"R", "V", "X", "S"} -> ~(a < 0)
    [] c = "s" -> ~(a <= 0)
    [] c \in {"p", "b", "P", "N"} -> ~(a < 1)
    [] c = "e" -> ~(a <= 0)
    [] c = "M" -> ~(a < 0 \/ a > 1)
    [] OTHER -> TRUE

\* what getopt_long can return for one option of the command line: a
\* declared letter with its argument, or '?' for a letter it does not know
OptionArgs(c) ==
  CASE c \in {"R", "V", "X", "S", "s", "p", "b", "P"} -> {-1, 0, 1}
    [] c = "N" -> 0..MaxIterations
    [] c = "e" -> {0} \cup UserEpsilons
    [] c = "M" -> 0..2
    [] OTHER -> {0}

Options ==
  {[opt |-> c, arg |-> a] : c \in DeclaredOptions \cup {"?"},
                           a \in -1..(2^MaxEpsExp + MaxIterations)}

CommandLineOptions == {o \in Options : o.arg \in OptionArgs(o.opt)}

RECURSIVE ArgLists(_)
ArgLists(n) ==
  IF n = 0 THEN {<< >>}
  ELSE ArgLists(n - 1)
         \cup {<<o>> \o l : o \in CommandLineOptions,
                            l \in {x \in ArgLists(n - 1) : Len(x) = n - 1}}

\* x * 0.5 on a step size
Half(e) == e \div 2

Sgn(x) == IF x > 0 THEN 1 ELSE IF x < 0 THEN -1 ELSE 0

\* every vector entry outside the prior bounds is kept as the one cell above
\* them: such a vector is only ever rejected by validate
Clamp(x) == IF x < PRIOR_MIN \/ x > PRIOR_MAX THEN PRIOR_MAX + 1 ELSE x

\* LeastSquaresIterator::copy(model, v, mask): the free slots of the model
CopyToVector(mdl) == mdl.free

\* LeastSquaresIterator::copy(v, model): writes the free slots only
CopyToModel(v, mdl) == [mdl EXCEPT !.free = v]

\* LeastSquaresIterator::validate(v, mask, PRIOR_MIN, PRIOR_MAX)
validate(v) == PRIOR_MIN <= v /\ v <= PRIOR_MAX

\* SimpleStep::ComputeStep: current - epsilon * gradient
SimpleStep(eps, g, v, v0) == Clamp(v - eps * g)

\* QuasiNewton::ComputeStep: current + epsilon * direction, the direction
\* being the descent direction pulled toward the prior mean
QuasiNewton(eps, g, v, v0) == Clamp(v + eps * (Sgn(v0 - v) - g))

\* step[m]->ComputeStep(...): the return value and the contents of
\* model_v_proposed afterwards.  The quasi-Newton system is singular where
\* the derivatives vanish: the call may then fail, and a failed call leaves
\* the vector unspecified
ComputeStep(mm, eps, g, v, v0) ==
  {[ok |-> TRUE,
    proposed |-> IF mm = 0 THEN SimpleStep(eps, g, v, v0)
                           ELSE QuasiNewton(eps, g, v, v0)]}
  \cup (IF mm = 1 /\ g = 0 THEN {[ok |-> FALSE, proposed |-> p] : p \in Vals} ELSE {})
\* StrategyIndex with the mode flag choosing the first strategy
StrategyIndex_FromMode(its, md) == (its + md) % 2

\* int m = iterations % 2 (the mode argument is not read)
StrategyIndex(its, md) == its % 2

\* likelihood_love(data, model, ...): a pure function of the model whose
\* values are fixed the first time they are observed
LikelihoodOutputs == [like : Likes, dLdp : Grads]

likelihood_love(mdl) ==
  IF mdl \in DOMAIN known THEN {known[mdl]} ELSE LikelihoodOutputs

Remember(mdl, out) ==
  IF mdl \in DOMAIN known THEN known ELSE (mdl :> out) @@ known

\* printf lines
InitLine(l) == [line |-> "init", it |-> 0, like |-> l, eps |-> 0]
ExitingLine(its) == [line |-> "Exiting", it |-> its, like |-> 0, eps |-> 0]
BacktrackingLine(its) ==
  [line |-> "Backtracking", it |-> its, like |-> 0, eps |-> 0]
ProgressLine(its, l, e) == [line |-> "progress", it |-> its, like |-> l, eps |-> e]

\* ------------------------------------------------------------------- Init
Init ==
  /\ pc = "main_options"
  /\ argv \in ArgLists(MaxArgs)
  /\ maxiterations \in 1..MaxIterations
  /\ uepsilon \in UserEpsilons
  /\ mode \in {0, 1}
  /\ \E v \in Vals :
       /\ model = [free |-> v, fixed |-> FixedSlots]
       /\ reference = [free |-> v, fixed |-> FixedSlots]
  /\ model_0 = 0
  /\ model_v = 0
  /\ model_v_proposed = 0
  /\ epsilon = <<0, 0>>
  /\ m = 0
  /\ valid = FALSE
  /\ stepok = TRUE
  /\ iterations = 0
  /\ like = 0
  /\ last_like = 0
  /\ dLdp = 0
  /\ known = << >>
  /\ stdout = << >>
  /\ stderr = << >>
  /\ invertRet = "none"
  /\ mainRet = "none"

\* ------------------------------------------------------------------- main

\* lines 152-279: one pass of the option loop, c = getopt_long(...) # -1
MainOption ==
  /\ pc = "main_options"
  /\ argv # << >>
  /\ LET c == Head(argv).opt
         a == Head(argv).arg
     IN  IF c \in SwitchCases
         THEN IF RangeOK(c, a)
              THEN /\ maxiterations' = IF c = "N" THEN a ELSE maxiterations
                   /\ uepsilon' = IF c = "e" THEN a ELSE uepsilon
                   /\ mode' = IF c = "M" THEN a ELSE mode
                   /\ argv' = Tail(argv)
                   /\ UNCHANGED <<pc, stderr, mainRet>>
              ELSE /\ stderr' = Append(stderr, "error: option value out of range")
                   /\ mainRet' = -1
                   /\ pc' = "main_done"
                   /\ UNCHANGED <<argv, maxiterations, uepsilon, mode>>
         ELSE /\ stderr' = IF c = "h" THEN Append(stderr, "usage")
                           ELSE stderr \o <<"unknown option", "usage">>
              /\ mainRet' = -1
              /\ pc' = "main_done"
              /\ UNCHANGED <<argv, maxiterations, uepsilon, mode>>
  /\ UNCHANGED <<model, reference, model_0, model_v, model_v_proposed, epsilon,
                 m, valid, stepok, iterations, like, last_like, dLdp, known,
                 stdout, invertRet>>

\* lines 155-157 and 281-329: the options are read; the data and the
\* reference model are loaded, or main gives up
MainLoad ==
  /\ pc = "main_options"
  /\ argv = << >>
  /\ \E loaded \in BOOLEAN :
       IF loaded
       THEN /\ pc' = "main_save_initial"
            /\ UNCHANGED <<stderr, mainRet>>
       ELSE /\ stderr' = Append(stderr, "error: failed to load")
            /\ mainRet' = -1
            /\ pc' = "main_done"
  /\ UNCHANGED <<argv, maxiterations, uepsilon, mode, model, reference, model_0,
                 model_v, model_v_proposed, epsilon, m, valid, stepok,
                 iterations, like, last_like, dLdp, known, stdout, invertRet>>

\* lines 331-335: reference.model.save("<output>.initial-model")
MainSaveInitialModel ==
  /\ pc = "main_save_initial"
  /\ \E saved \in BOOLEAN :
       IF saved
       THEN /\ pc' = "main_save_test_initial"
            /\ UNCHANGED <<stderr, mainRet>>
       ELSE /\ stderr' = Append(stderr, "error: failed to save initial model")
            /\ mainRet' = -1
            /\ pc' = "main_done"
  /\ UNCHANGED <<argv, maxiterations, uepsilon, mode, model, reference, model_0,
                 model_v, model_v_proposed, epsilon, m, valid, stepok,
                 iterations, like, last_like, dLdp, known, stdout, invertRet>>

\* lines 336-340: reference.reference.save("<output>.test-initial-model")
MainSaveTestInitialModel ==
  /\ pc = "main_save_test_initial"
  /\ \E saved \in BOOLEAN :
       IF saved
       THEN /\ pc' = "invert_init"
            /\ UNCHANGED <<stderr, mainRet>>
       ELSE /\ stderr' = Append(stderr, "error: failed to save initial model")
            /\ mainRet' = -1
            /\ pc' = "main_done"
  /\ UNCHANGED <<argv, maxiterations, uepsilon, mode, model, reference, model_0,
                 model_v, model_v_proposed, epsilon, m, valid, stepok,
                 iterations, like, last_like, dLdp, known, stdout, invertRet>>

\* lines 344-361: the caller's test of invert's return value
MainAfterInvert ==
  /\ pc = "main_after_invert"
  /\ IF invertRet = TRUE
     THEN /\ pc' = "main_save_model"
          /\ UNCHANGED <<stderr, mainRet>>
     ELSE /\ stderr' = Append(stderr, "error: failed to invert")
          /\ mainRet' = -1
          /\ pc' = "main_done"
  /\ UNCHANGED <<argv, maxiterations, uepsilon, mode, model, reference, model_0,
                 model_v, model_v_proposed, epsilon, m, valid, stepok,
                 iterations, like, last_like, dLdp, known, stdout, invertRet>>

\* lines 366-370: reference.model.save("<output>.model")
MainSaveModel ==
  /\ pc = "main_save_model"
  /\ \E saved \in BOOLEAN :
       IF saved
       THEN /\ pc' = "main_save_pred"
            /\ UNCHANGED <<stderr, mainRet>>
       ELSE /\ stderr' = Append(stderr, "error: failed to save model")
            /\ mainRet' = -1
            /\ pc' = "main_done"
  /\ UNCHANGED <<argv, maxiterations, uepsilon, mode, model, reference, model_0,
                 model_v, model_v_proposed, epsilon, m, valid, stepok,
                 iterations, like, last_like, dLdp, known, stdout, invertRet>>

\* lines 375-381: data.save_predictions("<output>.pred"); return 0
MainSavePredictions ==
  /\ pc = "main_save_pred"
  /\ \E saved \in BOOLEAN :
       IF saved
       THEN /\ mainRet' = 0
            /\ UNCHANGED stderr
       ELSE /\ stderr' = Append(stderr, "error: failed to save predictions")
            /\ mainRet' = -1
  /\ pc' = "main_done"
  /\ UNCHANGED <<argv, maxiterations, uepsilon, mode, model, reference, model_0,
                 model_v, model_v_proposed, epsilon, m, valid, stepok,
                 iterations, like, last_like, dLdp, known, stdout, invertRet>>

\* ----------------------------------------------------------------- invert

\* lines 439-467: the two step sizes, the initial likelihood, "init:"
InvertInit ==
  /\ pc = "invert_init"
  /\ epsilon' = <<uepsilon, uepsilon>>
  /\ \E out \in likelihood_love(model) :
       /\ like' = out.like
       /\ last_like' = out.like
       /\ dLdp' = out.dLdp
       /\ known' = Remember(model, out)
       /\ stdout' = Append(stdout, InitLine(out.like))
  /\ pc' = "invert_setup"
  /\ UNCHANGED <<model, model_0, model_v, model_v_proposed, m, valid, stepok,
                 iterations, stderr>>
  /\ UNCHANGED mainVars

\* InvertSetup with a failed diagnostic save ending the inversion
InvertSetup_SaveFatal ==
  /\ pc = "invert_setup"
  /\ \E saved \in BOOLEAN :
       /\ stderr' = IF saved THEN stderr
                    ELSE Append(stderr, "error: failed to save initial predictions")
       /\ pc' = IF saved THEN "loop_head" ELSE "invert_return"
  /\ model_0' = CopyToVector(reference)
  /\ iterations' = 0
  /\ UNCHANGED <<model, model_v, model_v_proposed, epsilon, m, valid, stepok,
                 like, last_like, dLdp, known, stdout>>
  /\ UNCHANGED mainVars

\* lines 469-495: the diagnostic save, Cm, the vectors, iterations = 0
InvertSetup ==
  /\ pc = "invert_setup"
  /\ \E saved \in BOOLEAN :
       stderr' = IF saved THEN stderr
                 ELSE Append(stderr, "error: failed to save initial predictions")
  /\ model_0' = CopyToVector(reference)
  /\ iterations' = 0
  /\ pc' = "loop_head"
  /\ UNCHANGED <<model, model_v, model_v_proposed, epsilon, m, valid, stepok,
                 like, last_like, dLdp, known, stdout>>
  /\ UNCHANGED mainVars

\* lines 500-503: top of the outer loop
LoopHead ==
  /\ pc = "loop_head"
  /\ m' = StrategyIndex(iterations, mode)
  /\ valid' = FALSE
  /\ pc' = "step_attempt"
  /\ UNCHANGED <<model, model_0, model_v, model_v_proposed, epsilon, stepok,
                 iterations, like, last_like, dLdp, known, stdout, stderr>>
  /\ UNCHANGED mainVars

\* StepAttempt with the step size left alone after a rejection
StepAttempt_NoHalving ==
  /\ pc = "step_attempt"
  /\ model_v' = CopyToVector(model)
  /\ \E r \in ComputeStep(m, epsilon[m + 1], dLdp, CopyToVector(model), model_0) :
       /\ stepok' = r.ok
       /\ model_v_proposed' = r.proposed
       /\ valid' = validate(r.proposed)
       /\ epsilon' = epsilon
       /\ pc' = IF validate(r.proposed) THEN "evaluate" ELSE "step_attempt"
  /\ UNCHANGED <<model, model_0, m, iterations, like, last_like, dLdp, known,
                 stdout, stderr>>
  /\ UNCHANGED mainVars

\* StepAttempt with the step size doubled after a rejection
StepAttempt_Doubling ==
  /\ pc = "step_attempt"
  /\ model_v' = CopyToVector(model)
  /\ \E r \in ComputeStep(m, epsilon[m + 1], dLdp, CopyToVector(model), model_0) :
       /\ stepok' = r.ok
       /\ model_v_proposed' = r.proposed
       /\ valid' = validate(r.proposed)
       /\ IF validate(r.proposed)
          THEN /\ epsilon' = epsilon
               /\ pc' = "evaluate"
          ELSE /\ epsilon' = [epsilon EXCEPT ![m + 1] = @ * 2]
               /\ pc' = "step_attempt"
  /\ UNCHANGED <<model, model_0, m, iterations, like, last_like, dLdp, known,
                 stdout, stderr>>
  /\ UNCHANGED mainVars

\* StepAttempt with the proposal written into the model before validate
StepAttempt_WritesFirst ==
  /\ pc = "step_attempt"
  /\ model_v' = CopyToVector(model)
  /\ \E r \in ComputeStep(m, epsilon[m + 1], dLdp, CopyToVector(model), model_0) :
       /\ stepok' = r.ok
       /\ model_v_proposed' = r.proposed
       /\ model' = CopyToModel(r.proposed, model)
       /\ valid' = validate(r.proposed)
       /\ IF validate(r.proposed)
          THEN /\ epsilon' = epsilon
               /\ pc' = "evaluate"
          ELSE /\ epsilon' = [epsilon EXCEPT ![m + 1] = Half(@)]
               /\ pc' = "step_attempt"
  /\ UNCHANGED <<model_0, m, iterations, like, last_like, dLdp, known,
                 stdout, stderr>>
  /\ UNCHANGED mainVars
\* StepAttempt retrying when ComputeStep returned false
StepAttempt_ChecksReturn ==
  /\ pc = "step_attempt"
  /\ model_v' = CopyToVector(model)
  /\ \E r \in ComputeStep(m, epsilon[m + 1], dLdp, CopyToVector(model), model_0) :
       /\ stepok' = r.ok
       /\ model_v_proposed' = r.proposed
       /\ valid' = (r.ok /\ validate(r.proposed))
       /\ IF r.ok /\ validate(r.proposed)
          THEN /\ epsilon' = epsilon
               /\ pc' = "evaluate"
          ELSE /\ epsilon' = [epsilon EXCEPT ![m + 1] = Half(@)]
               /\ pc' = "step_attempt"
  /\ UNCHANGED <<model, model_0, m, iterations, like, last_like, dLdp, known,
                 stdout, stderr>>
  /\ UNCHANGED mainVars

\* StepAttempt halving both step sizes after a rejection
StepAttempt_HalvesBoth ==
  /\ pc = "step_attempt"
  /\ model_v' = CopyToVector(model)
  /\ \E r \in ComputeStep(m, epsilon[m + 1], dLdp, CopyToVector(model), model_0) :
       /\ stepok' = r.ok
       /\ model_v_proposed' = r.proposed
       /\ valid' = validate(r.proposed)
       /\ IF validate(r.proposed)
          THEN /\ epsilon' = epsilon
               /\ pc' = "evaluate"
          ELSE /\ epsilon' = <<Half(epsilon[1]), Half(epsilon[2])>>
               /\ pc' = "step_attempt"
  /\ UNCHANGED <<model, model_0, m, iterations, like, last_like, dLdp, known,
                 stdout, stderr>>
  /\ UNCHANGED mainVars

\* StepAttempt leaving the loop without looking at validate's result
StepAttempt_IgnoresValidate ==
  /\ pc = "step_attempt"
  /\ model_v' = CopyToVector(model)
  /\ \E r \in ComputeStep(m, epsilon[m + 1], dLdp, CopyToVector(model), model_0) :
       /\ stepok' = r.ok
       /\ model_v_proposed' = r.proposed
       /\ valid' = validate(r.proposed)
       /\ epsilon' = IF validate(r.proposed) THEN epsilon
                     ELSE [epsilon EXCEPT ![m + 1] = Half(@)]
       /\ pc' = "evaluate"
  /\ UNCHANGED <<model, model_0, m, iterations, like, last_like, dLdp, known,
                 stdout, stderr>>
  /\ UNCHANGED mainVars

\* lines 508-529: one pass of the prior-validation loop
StepAttempt ==
  /\ pc = "step_attempt"
  /\ model_v' = CopyToVector(model)
  /\ \E r \in ComputeStep(m, epsilon[m + 1], dLdp, CopyToVector(model), model_0) :
       /\ stepok' = r.ok
       /\ model_v_proposed' = r.proposed
       /\ valid' = validate(r.proposed)
       /\ IF validate(r.proposed)
          THEN /\ epsilon' = epsilon
               /\ pc' = "evaluate"
          ELSE /\ epsilon' = [epsilon EXCEPT ![m + 1] = Half(@)]
               /\ pc' = "step_attempt"
  /\ UNCHANGED <<model, model_0, m, iterations, like, last_like, dLdp, known,
                 stdout, stderr>>
  /\ UNCHANGED mainVars

\* lines 531-556: write the proposal into the model, recompute the likelihood
Evaluate ==
  /\ pc = "evaluate"
  /\ model' = CopyToModel(model_v_proposed, model)
  /\ last_like' = like
  /\ \E out \in likelihood_love(model') :
       /\ like' = out.like
       /\ dLdp' = out.dLdp
       /\ known' = Remember(model', out)
  /\ pc' = "compare"
  /\ UNCHANGED <<model_0, model_v, model_v_proposed, epsilon, m, valid, stepok,
                 iterations, stdout, stderr>>
  /\ UNCHANGED mainVars

\* Exiting with the floor test off by one (<= for <)
Exiting_AtFloor ==
  /\ pc = "compare"
  /\ like > last_like
  /\ epsilon[m + 1] <= EPSILON_MIN
  /\ stdout' = Append(stdout, ExitingLine(iterations))
  /\ pc' = "invert_return"
  /\ UNCHANGED <<model, model_0, model_v, model_v_proposed, epsilon, m, valid,
                 stepok, iterations, like, last_like, dLdp, known, stderr>>
  /\ UNCHANGED mainVars

\* lines 557-562: worse and the step size under the floor: "Exiting", break
Exiting ==
  /\ pc = "compare"
  /\ like > last_like
  /\ epsilon[m + 1] < EPSILON_MIN
  /\ stdout' = Append(stdout, ExitingLine(iterations))
  /\ pc' = "invert_return"
  /\ UNCHANGED <<model, model_0, model_v, model_v_proposed, epsilon, m, valid,
                 stepok, iterations, like, last_like, dLdp, known, stderr>>
  /\ UNCHANGED mainVars

\* Backtrack without the second likelihood_love call
Backtrack_NoRecompute ==
  /\ pc = "compare"
  /\ like > last_like
  /\ ~(epsilon[m + 1] < EPSILON_MIN)
  /\ stdout' = Append(stdout, BacktrackingLine(iterations))
  /\ epsilon' = [epsilon EXCEPT ![m + 1] = Half(@)]
  /\ model' = CopyToModel(model_v, model)
  /\ pc' = "loop_cond"
  /\ UNCHANGED <<model_0, model_v, model_v_proposed, m, valid, stepok,
                 iterations, like, last_like, dLdp, known, stderr>>
  /\ UNCHANGED mainVars

\* Backtrack without copy(model_v, model)
Backtrack_KeepsModel ==
  /\ pc = "compare"
  /\ like > last_like
  /\ ~(epsilon[m + 1] < EPSILON_MIN)
  /\ stdout' = Append(stdout, BacktrackingLine(iterations))
  /\ epsilon' = [epsilon EXCEPT ![m + 1] = Half(@)]
  /\ model' = model
  /\ \E out \in likelihood_love(model') :
       /\ like' = out.like
       /\ dLdp' = out.dLdp
       /\ known' = Remember(model', out)
  /\ pc' = "loop_cond"
  /\ UNCHANGED <<model_0, model_v, model_v_proposed, m, valid, stepok,
                 iterations, last_like, stderr>>
  /\ UNCHANGED mainVars
\* Backtrack counting the undone attempt as an iteration
Backtrack_Counts ==
  /\ pc = "compare"
  /\ like > last_like
  /\ ~(epsilon[m + 1] < EPSILON_MIN)
  /\ stdout' = Append(stdout, BacktrackingLine(iterations))
  /\ epsilon' = [epsilon EXCEPT ![m + 1] = Half(@)]
  /\ model' = CopyToModel(model_v, model)
  /\ \E out \in likelihood_love(model') :
       /\ like' = out.like
       /\ dLdp' = out.dLdp
       /\ known' = Remember(model', out)
  /\ iterations' = iterations + 1
  /\ pc' = "loop_cond"
  /\ UNCHANGED <<model_0, model_v, model_v_proposed, m, valid, stepok,
                 last_like, stderr>>
  /\ UNCHANGED mainVars

\* Backtrack keeping the derivatives of the undone proposal
Backtrack_StaleDerivatives ==
  /\ pc = "compare"
  /\ like > last_like
  /\ ~(epsilon[m + 1] < EPSILON_MIN)
  /\ stdout' = Append(stdout, BacktrackingLine(iterations))
  /\ epsilon' = [epsilon EXCEPT ![m + 1] = Half(@)]
  /\ model' = CopyToModel(model_v, model)
  /\ \E out \in likelihood_love(model') :
       /\ like' = out.like
       /\ dLdp' = dLdp
       /\ known' = Remember(model', out)
  /\ pc' = "loop_cond"
  /\ UNCHANGED <<model_0, model_v, model_v_proposed, m, valid, stepok,
                 iterations, last_like, stderr>>
  /\ UNCHANGED mainVars
\* Backtrack restoring the step size to the user's value
Backtrack_ResetsEpsilon ==
  /\ pc = "compare"
  /\ like > last_like
  /\ ~(epsilon[m + 1] < EPSILON_MIN)
  /\ stdout' = Append(stdout, BacktrackingLine(iterations))
  /\ epsilon' = [epsilon EXCEPT ![m + 1] = uepsilon]
  /\ model' = CopyToModel(model_v, model)
  /\ \E out \in likelihood_love(model') :
       /\ like' = out.like
       /\ dLdp' = out.dLdp
       /\ known' = Remember(model', out)
  /\ pc' = "loop_cond"
  /\ UNCHANGED <<model_0, model_v, model_v_proposed, m, valid, stepok,
                 iterations, last_like, stderr>>
  /\ UNCHANGED mainVars

\* lines 557-590: worse: halve, restore model_v, recompute the likelihood
Backtrack ==
  /\ pc = "compare"
  /\ like > last_like
  /\ ~(epsilon[m + 1] < EPSILON_MIN)
  /\ stdout' = Append(stdout, BacktrackingLine(iterations))
  /\ epsilon' = [epsilon EXCEPT ![m + 1] = Half(@)]
  /\ model' = CopyToModel(model_v, model)
  /\ \E out \in likelihood_love(model') :
       /\ like' = out.like
       /\ dLdp' = out.dLdp
       /\ known' = Remember(model', out)
  /\ pc' = "loop_cond"
  /\ UNCHANGED <<model_0, model_v, model_v_proposed, m, valid, stepok,
                 iterations, last_like, stderr>>
  /\ UNCHANGED mainVars

\* lines 591-598: not worse: progress line, iterations++
Accept ==
  /\ pc = "compare"
  /\ ~(like > last_like)
  /\ stdout' = Append(stdout, ProgressLine(iterations, like, epsilon[m + 1]))
  /\ iterations' = iterations + 1
  /\ pc' = "loop_cond"
  /\ UNCHANGED <<model, model_0, model_v, model_v_proposed, epsilon, m, valid,
                 stepok, like, last_like, dLdp, known, stderr>>
  /\ UNCHANGED mainVars

\* LoopAgain with the loop test off by one (<= for <)
LoopAgain_OneMore ==
  /\ pc = "loop_cond"
  /\ iterations <= maxiterations
  /\ pc' = "loop_head"
  /\ UNCHANGED <<model, model_0, model_v, model_v_proposed, epsilon, m, valid,
                 stepok, iterations, like, last_like, dLdp, known, stdout,
                 stderr>>
  /\ UNCHANGED mainVars

\* line 600: while (iterations < maxiterations), taken
LoopAgain ==
  /\ pc = "loop_cond"
  /\ iterations < maxiterations
  /\ pc' = "loop_head"
  /\ UNCHANGED <<model, model_0, model_v, model_v_proposed, epsilon, m, valid,
                 stepok, iterations, like, last_like, dLdp, known, stdout,
                 stderr>>
  /\ UNCHANGED mainVars

\* line 600: while (iterations < maxiterations), left
LoopExit ==
  /\ pc = "loop_cond"
  /\ ~(iterations < maxiterations)
  /\ pc' = "invert_return"
  /\ UNCHANGED <<model, model_0, model_v, model_v_proposed, epsilon, m, valid,
                 stepok, iterations, like, last_like, dLdp, known, stdout,
                 stderr>>
  /\ UNCHANGED mainVars

\* InvertReturn reporting the floor exit as a failure
InvertReturn_FloorFails ==
  /\ pc = "invert_return"
  /\ invertRet' = ~(iterations < maxiterations)
  /\ pc' = "main_after_invert"
  /\ UNCHANGED <<argv, maxiterations, uepsilon, mode, model, reference, model_0,
                 model_v, model_v_proposed, epsilon, m, valid, stepok,
                 iterations, like, last_like, dLdp, known, stdout, stderr,
                 mainRet>>

\* line 602: return true
InvertReturn ==
  /\ pc = "invert_return"
  /\ invertRet' = TRUE
  /\ pc' = "main_after_invert"
  /\ UNCHANGED <<argv, maxiterations, uepsilon, mode, model, reference, model_0,
                 model_v, model_v_proposed, epsilon, m, valid, stepok,
                 iterations, like, last_like, dLdp, known, stdout, stderr,
                 mainRet>>

Next ==
  \/ MainOption
  \/ MainLoad
  \/ MainSaveInitialModel
  \/ MainSaveTestInitialModel
  \/ InvertInit
  \/ InvertSetup
  \/ LoopHead
  \/ StepAttempt
  \/ Evaluate
  \/ Exiting
  \/ Backtrack
  \/ Accept
  \/ LoopAgain
  \/ LoopExit
  \/ InvertReturn
  \/ MainAfterInvert
  \/ MainSaveModel
  \/ MainSavePredictions

Spec == Init /\ [][Next]_vars

\* the program is sequential: it always takes its next step.  A pass of the
\* prior-validation loop that finds epsilon[m] already at zero and gets the
\* same rejected proposal again leaves every variable as it was: the loop
\* spinning forever is the behaviour that stays at "step_attempt"
FairSpec == Spec /\ WF_vars(Next)

\* ----------------------------------------------------- reading the output

Lines(kinds) == {i \in 1..Len(stdout) : stdout[i].line \in kinds}

\* the misfit printed by the last "init:" or progress line of out
LastAcceptedLike(out) ==
  LET acc == {i \in 1..Len(out) : out[i].line \in {"init", "progress"}}
      last == CHOOSE i \in acc : \A j \in acc : j <= i
  IN  out[last].like

Printed(kind) ==
  /\ Len(stdout') = Len(stdout) + 1
  /\ stdout'[Len(stdout')].line = kind

InLoop == pc \in {"loop_head", "step_attempt", "evaluate", "compare", "loop_cond"}

SaveModelFailed ==
  \E i \in 1..Len(stderr) : stderr[i] = "error: failed to save initial model"

SavePredictionsFailed ==
  \E i \in 1..Len(stderr) : stderr[i] = "error: failed to save initial predictions"

\* ----------------------------------------------------------------- claims

\* C1: the misfit of every accepted step (progress line) is at most the
\* misfit of the previously accepted state (the "init:" misfit for the first
\* one), and a step is backtracked only when its evaluated misfit is strictly
\* greater than the last accepted misfit.
C1_AcceptedMisfitNonIncreasing ==
  [][/\ Printed("progress") => like' <= LastAcceptedLike(stdout)
     /\ Printed("progress") =>
          stdout'[Len(stdout')].like <= LastAcceptedLike(stdout)
     /\ Printed("Backtracking") => like > LastAcceptedLike(stdout)]_vars

\* a step was backtracked and a later attempt of the same run was accepted
C1_Witness ==
  \E i \in Lines({"Backtracking"}) : \E j \in Lines({"progress"}) : i < j

\* C2: each epsilon[m] starts at the user epsilon, and every step of invert
\* either leaves it alone or halves it; no step raises it.
C2_EpsilonNeverIncreases ==
  [][/\ pc' = "invert_setup" => epsilon' = <<uepsilon, uepsilon>>
     /\ pc # "invert_init" =>
          \A i \in 1..2 :
            /\ epsilon'[i] <= epsilon[i]
            /\ \/ epsilon'[i] = epsilon[i]
               \/ epsilon[i] - 2 * epsilon'[i] \in {0, 1}]_vars

\* both step sizes have been halved
C2_Witness ==
  /\ InLoop
  /\ epsilon[1] < uepsilon
  /\ epsilon[2] < uepsilon

C4_RejectedProposalLeavesModel ==
  [][/\ (pc = "step_attempt" /\ ~valid') => model' = model
     /\ (pc = "step_attempt" /\ pc' = "step_attempt") => model' = model
     /\ (InLoop /\ model' # model) =>
          \/ /\ pc = "evaluate"
             /\ valid
             /\ validate(model_v_proposed)
             /\ model' = CopyToModel(model_v_proposed, model)
          \/ /\ pc = "compare"
             /\ model' = CopyToModel(model_v, model)]_vars

\* a proposal other than the live model has just been rejected
C4_Witness ==
  /\ pc = "step_attempt"
  /\ ~validate(model_v_proposed)
  /\ model_v_proposed # CopyToVector(model)
  /\ model_v = CopyToVector(model)
  /\ epsilon[m + 1] < uepsilon

\* C5 as claimed: once either step size is below the floor no further step
\* is accepted.
C5_NoAcceptBelowFloor ==
  [][(InLoop /\ (epsilon[1] < EPSILON_MIN \/ epsilon[2] < EPSILON_MIN))
       => iterations' = iterations]_vars

\* C5 amended: the floor is tested only for the strategy in use and only
\* after a worse misfit: such a step prints "Exiting" and leaves the loop, the
\* loop is left early in no other way, and nothing is accepted afterwards.
C5_FloorExitOnlyWhenWorse ==
  [][/\ (pc = "compare" /\ like > last_like /\ epsilon[m + 1] < EPSILON_MIN)
          => (pc' = "invert_return" /\ Printed("Exiting"))
     /\ (pc = "compare" /\ pc' = "invert_return")
          => (like > last_like /\ epsilon[m + 1] < EPSILON_MIN)
     /\ Lines({"Exiting"}) # {}
          => (iterations' = iterations /\ stdout' = stdout /\ model' = model)]_vars

\* the floor exit was taken
C5_Witness ==
  /\ pc = "invert_return"
  /\ Lines({"Exiting"}) # {}
  /\ iterations < maxiterations

\* C6 as claimed: the evaluated step attempts, accepted or backtracked, are
\* at most maxiterations.
C6_AttemptsWithinMaxiterations ==
  Cardinality(Lines({"Backtracking", "progress"})) <= maxiterations

\* C6 amended: the accepted steps (progress lines) are at most maxiterations,
\* exactly iterations of them; backtracked attempts are not counted.
C6_AcceptedWithinMaxiterations ==
  /\ Cardinality(Lines({"progress"})) = iterations
  /\ iterations <= maxiterations
  /\ \A i \in Lines({"Backtracking", "progress", "Exiting"}) :
       stdout[i].it = Cardinality({j \in Lines({"progress"}) : j < i})

\* maxiterations = 1, a backtracked attempt and then the accepted one
C6_Witness ==
  /\ maxiterations = 1
  /\ Cardinality(Lines({"Backtracking"})) >= 1
  /\ Cardinality(Lines({"progress"})) = 1

\* C7 as claimed: the strategies invert uses depend on mode: in a finished
\* run some step attempt used a strategy other than the one the same attempt
\* uses when mode is flipped.
C7_ModeSelectsStrategy ==
  (pc = "main_done" /\ stdout # << >>) =>
    \E i \in Lines({"Backtracking", "progress", "Exiting"}) :
      StrategyIndex(stdout[i].it, mode) # StrategyIndex(stdout[i].it, 1 - mode)

\* C8: whenever invert has returned, it has returned true, and main has not
\* reported a failed inversion.
C8_InvertReturnsTrue ==
  (pc \in {"main_after_invert", "main_save_model", "main_save_pred"}
     \/ (pc = "main_done" /\ stdout # << >>))
    => /\ invertRet = TRUE
       /\ \A i \in 1..Len(stderr) : stderr[i] # "error: failed to invert"

\* invert returned through the floor exit, after a failed save of the
\* initial predictions and a ComputeStep call that returned false
C8_Witness ==
  /\ pc = "main_after_invert"
  /\ Lines({"Exiting"}) # {}
  /\ SavePredictionsFailed
  /\ ~stepok

\* C9 as claimed: a run in which a save of the initial model files or of the
\* initial predictions failed still runs the inversion to its end.
C9_SaveFailuresAreSoft ==
  (pc = "main_done" /\ (SaveModelFailed \/ SavePredictionsFailed))
    => (stdout # << >> /\ invertRet = TRUE)

\* C9 amended: a failed save of the initial predictions changes nothing but
\* standard error and the loop is entered all the same; a failed save of an
\* initial model file makes main return -1 before invert is called.
C9_OnlyPredictionSaveIsSoft ==
  [][/\ pc = "invert_setup" =>
          /\ pc' = "loop_head"
          /\ <<model, epsilon, like, last_like, stdout, invertRet, mainRet>>'
               = <<model, epsilon, like, last_like, stdout, invertRet, mainRet>>
     /\ SavePredictionsFailed' => (pc' = "main_done" => invertRet' = TRUE)
     /\ (pc \in {"main_save_initial", "main_save_test_initial"}
           /\ stderr' # stderr)
          => (pc' = "main_done" /\ mainRet' = -1 /\ stdout' = << >>
                /\ invertRet' = "none")]_vars

\* the save of the initial predictions failed and the run ended normally
C9_Witness ==
  /\ pc = "main_done"
  /\ SavePredictionsFailed
  /\ mainRet = 0
  /\ iterations = maxiterations

\* C10: a backtrack leaves the live model equal to the snapshot model_v, the
\* iteration counter as it was, epsilon[m] at exactly half its value, and
\* like equal to the last accepted misfit.
C10_BacktrackRestores ==
  [][(pc = "compare" /\ like > last_like /\ ~(epsilon[m + 1] < EPSILON_MIN))
       => /\ Printed("Backtracking")
          /\ model' = CopyToModel(model_v, model)
          /\ CopyToVector(model') = model_v'
          /\ iterations' = iterations
          /\ 2 * epsilon'[m + 1] = epsilon[m + 1]
          /\ like' = last_like
          /\ like' = LastAcceptedLike(stdout)
          /\ like' < like
          /\ m' = m]_vars

\* a backtrack has just undone a proposal that differed from the snapshot
C10_Witness ==
  /\ pc = "loop_cond"
  /\ Lines({"Backtracking"}) # {}
  /\ stdout[Len(stdout)].line = "Backtracking"
  /\ CopyToVector(model) = model_v
  /\ model_v_proposed # model_v
  /\ like = last_like

\* C11: iterations is raised by one on each accepted step and changed by
\* nothing else, it stays within 0..maxiterations, the loop is left either
\* with iterations = maxiterations or through the "Exiting" break, and that
\* break is taken only after a worse misfit with epsilon[m] below the floor.
C11_TwoExitsCountingAccepted ==
  [][/\ iterations' # iterations =>
          (pc = "compare" /\ Printed("progress") /\ iterations' = iterations + 1)
     /\ Printed("progress") => iterations' = iterations + 1
     /\ 0 <= iterations' /\ iterations' <= maxiterations'
     /\ pc' = "invert_return" =>
          \/ /\ pc = "loop_cond"
             /\ iterations = maxiterations
             /\ Lines({"Exiting"}) = {}
             /\ Cardinality(Lines({"progress"})) = maxiterations
          \/ /\ pc = "compare"
             /\ Printed("Exiting")
             /\ like > last_like
             /\ epsilon[m + 1] < EPSILON_MIN
             /\ iterations < maxiterations]_vars

\* the loop was left by the counter after an attempt had been backtracked
C11_Witness ==
  /\ pc = "invert_return"
  /\ Lines({"Exiting"}) = {}
  /\ Lines({"Backtracking"}) # {}
  /\ iterations = maxiterations
  /\ maxiterations = MaxIterations

\* C12 as claimed: after the floor exit the live model is the last accepted
\* model (the snapshot model_v), and its misfit is not above the initial one.
C12_FloorExitLeavesAcceptedModel ==
  (pc \in {"invert_return", "main_after_invert", "main_save_model"}
     /\ Lines({"Exiting"}) # {})
    => /\ CopyToVector(model) = model_v
       /\ known[model].like <= stdout[1].like

\* C13: whenever ComputeStep is about to be called, the derivatives and the
\* misfit at hand are what likelihood_love returns for the live model.
C13_DerivativesOfLiveModel ==
  pc = "step_attempt" =>
    /\ model \in DOMAIN known
    /\ dLdp = known[model].dLdp
    /\ like = known[model].like

\* a step is attempted after a backtrack undid a proposal whose derivatives
\* differ from those of the restored model
C13_Witness ==
  /\ pc = "step_attempt"
  /\ Lines({"Backtracking"}) # {}
  /\ stdout[Len(stdout)].line = "Backtracking"
  /\ \E mdl \in DOMAIN known : known[mdl].dLdp # dLdp

\* C14: a step attempt uses SimpleStep (index 0) when the number of steps
\* accepted so far is even and QuasiNewton (index 1) when it is odd: the
\* first attempt uses SimpleStep, the index switches at the top of the loop
\* after an accepted step and only then, and retries keep it.
C14_StrategyAlternatesOnAccept ==
  [][/\ pc' \in {"step_attempt", "evaluate", "compare"} =>
          m' = Cardinality({i \in 1..Len(stdout') : stdout'[i].line = "progress"}) % 2
     /\ (pc = "loop_head" /\ stdout[Len(stdout)].line = "progress") => m' = 1 - m
     /\ (pc = "loop_head" /\ stdout[Len(stdout)].line # "progress") => m' = m
     /\ pc # "loop_head" => m' = m]_vars

\* QuasiNewton is retried after a backtrack that followed an accepted step
C14_Witness ==
  /\ pc = "step_attempt"
  /\ m = 1
  /\ stdout[Len(stdout)].line = "Backtracking"
  /\ Lines({"progress"}) # {}

\* C15: the pass of the prior-validation loop goes on from ComputeStep in
\* the same way whatever it returned: the vector is validated, a valid one
\* is written into the model and evaluated, and nothing is reported.
C15_ComputeStepReturnIgnored ==
  [][/\ pc = "step_attempt" =>
          /\ valid' = validate(model_v_proposed')
          /\ pc' = IF validate(model_v_proposed') THEN "evaluate" ELSE "step_attempt"
          /\ validate(model_v_proposed') => epsilon' = epsilon
     /\ pc = "evaluate" =>
          /\ model' = CopyToModel(model_v_proposed, model)
          /\ pc' = "compare"
          /\ like' = known'[model'].like
     /\ InLoop => (stderr' = stderr /\ invertRet' = invertRet)]_vars

\* the vector left by a failed ComputeStep was written into the model and
\* evaluated
C15_Witness ==
  /\ pc = "compare"
  /\ ~stepok
  /\ CopyToVector(model) = model_v_proposed
  /\ model_v_proposed # model_v

\* C16: a prior rejection or a backtrack halves the step size of the
\* strategy in use and leaves the other one alone; a prior rejection also
\* leaves iterations, like and last_like alone.
C16_StepSizesIndependent ==
  [][/\ InLoop => epsilon'[2 - m] = epsilon[2 - m]
     /\ (pc = "step_attempt" /\ pc' = "step_attempt") =>
          /\ epsilon'[m + 1] = Half(epsilon[m + 1])
          /\ <<iterations, like, last_like>>' = <<iterations, like, last_like>>
     /\ Printed("Backtracking") => epsilon'[m + 1] = Half(epsilon[m + 1])]_vars

\* QuasiNewton's step size was halved to zero while SimpleStep's is intact
C16_Witness ==
  /\ InLoop
  /\ m = 1
  /\ epsilon[1] = uepsilon
  /\ epsilon[2] = 0
  /\ uepsilon = 2

\* C17: in a run whose initial model satisfies the prior bounds, every model
\* that likelihood_love has been called on, and the live model at every
\* point of invert and after it, satisfies them.
C17_ModelStaysWithinPrior ==
  validate(CopyToVector(reference)) =>
    /\ validate(CopyToVector(model))
    /\ \A mdl \in DOMAIN known : validate(CopyToVector(mdl))
    /\ InLoop => validate(model_v)

\* invert returned after proposals had been rejected by validate and others
\* had moved the model
C17_Witness ==
  /\ pc = "main_after_invert"
  /\ validate(CopyToVector(reference))
  /\ model # reference
  /\ epsilon[1] < uepsilon
  /\ ~validate(model_v_proposed) \/ epsilon[2] < uepsilon

\* the "Backtracking" lines printed while strategy s was in use
BacktracksOf(s) == {i \in Lines({"Backtracking"}) : stdout[i].it % 2 = s}

\* C18: each backtrack of strategy s has halved a step size that was at
\* least EPSILON_MIN, so n backtracks need 2^(n-1) * EPSILON_MIN <= the user
\* epsilon; and a run that does not stay in the prior-validation loop for
\* ever leaves the outer loop.
C18_BacktracksBounded ==
  /\ [](\A s \in {0, 1} :
          LET n == Cardinality(BacktracksOf(s))
          IN  /\ n > 0 => 2^(n - 1) * EPSILON_MIN <= uepsilon
              /\ InLoop => 2^n * epsilon[s + 1] <= uepsilon)
  /\ (<>[](pc = "step_attempt") \/ <>(pc = "main_done"))

\* no attempt was ever accepted: the run backtracked and then left through
\* the floor exit
C18_Witness ==
  /\ pc = "main_after_invert"
  /\ Lines({"progress"}) = {}
  /\ Lines({"Backtracking"}) # {}
  /\ Lines({"Exiting"}) # {}

\* C19 as claimed: an option the program declares (the help option apart),
\* given with a value that passes its test, is consumed and the option loop
\* goes on to the next one.
C19_DeclaredOptionsAccepted ==
  [][(/\ pc = "main_options"
      /\ argv # << >>
      /\ Head(argv).opt \in DeclaredOptions \ {"h"}
      /\ RangeOK(Head(argv).opt, Head(argv).arg))
       => /\ pc' = "main_options"
          /\ argv' = Tail(argv)
          /\ stderr' = stderr
          /\ mainRet' = "none"]_vars

TypeOK ==
  /\ model.free \in Vals
  /\ model_v \in Vals
  /\ model_v_proposed \in Vals
  /\ epsilon[1] \in 0..(2^MaxEpsExp)
  /\ epsilon[2] \in 0..(2^MaxEpsExp)
  /\ iterations \in 0..maxiterations
  /\ like \in Likes
  /\ last_like \in Likes
  /\ m \in {0, 1}
====
